---- MODULE Spec2Model ----
(***************************************************************************)
(* Turn/action engine of the strategy-game backend:                        *)
(*   app/routers/games_router.py   apply_player_actions, apply_ai_actions, *)
(*                                 set_explored_radius,                    *)
(*                                 find_random_unexplored_tile             *)
(*   app/services/ai_agent.py      get_ai_actions, create_fallback_actions,*)
(*                                 smart_merge_players                     *)
(*                                                                         *)
(* Python dicts are records/functions; dict.get(k) is a DOMAIN test        *)
(* followed by an application; a Python list is a sequence (0-based index  *)
(* i of the source is index i+1 here); None for an optional value is the   *)
(* empty sequence and a present value v is <<v>>.                          *)
(***************************************************************************)
EXTENDS Integers, Sequences, FiniteSets, TLC

(***************************************************************************)
(* Bounds of the model.                                                    *)
(***************************************************************************)
MapWidth == 4
MapHeight == 1
MaxSteps == 2
MaxBatch == 2
MaxUnits == 3
MaxCities == 2
MaxTechs == 2
MaxBuildings == 1
MaxPlayers == 3
MaxRadius == 2
MaxInflight == 2

VARIABLES
    gs,        \* the GameState the caller holds (result of the last call)
    pre,       \* the GameState passed to the last call
    call,      \* the last call: [op, batch]
    ret,       \* what the last call handed back besides the state
    warnings,  \* messages the last call wrote with logging.warning
    steps,     \* number of calls made so far
    m,         \* the State Merge Guard's call: [phase, original, proposed, result]
    arg,       \* the object passed to the last call, as the caller sees it afterwards
    db,        \* the games collection: the stored game documents, in insertion order
    resp,      \* the HTTP response to the last request
    inflight   \* the requests being handled at once: [pc, request, loaded, resp] each

vars == <<gs, pre, call, ret, warnings, steps, m, arg, db, resp, inflight>>

(***************************************************************************)
(* Generic helpers.                                                        *)
(***************************************************************************)
Has(d, k) == k \in DOMAIN d

Loc(x, y) == [x |-> x, y |-> y]

RECURSIVE SelectSeqBy(_, _)
\* [u for u in s if keep(u)] with keep given as the set of kept indices
SelectSeqBy(s, keep) ==
    IF s = <<>> THEN <<>>
    ELSE LET n == Len(s)
             front == SelectSeqBy(SubSeq(s, 1, n - 1), keep)
         IN IF n \in keep THEN Append(front, s[n]) ELSE front

\* index of the first element of s whose id is the given one, 0 when none
FirstIndexOfId(s, id) ==
    IF \E i \in DOMAIN s : s[i].id = id
    THEN CHOOSE i \in DOMAIN s :
            /\ s[i].id = id
            /\ \A j \in DOMAIN s : s[j].id = id => i <= j
    ELSE 0

(***************************************************************************)
(* Data model (app/models.py).                                             *)
(***************************************************************************)
GameStatePlayer(cities, units, technologies, resources) ==
    [cities |-> cities, units |-> units,
     technologies |-> technologies, resources |-> resources]

EmptyRoster == GameStatePlayer(<<>>, <<>>, <<>>, <<>>)

ZeroGrid == [y \in 1..MapHeight |-> [x \in 1..MapWidth |-> 0]]

GameMap(explored) ==
    [size |-> [width |-> MapWidth, height |-> MapHeight], explored |-> explored]

GameState(turn, current_player, player, ai, map) ==
    [turn |-> turn, current_player |-> current_player,
     player |-> player, ai |-> ai, map |-> map]

(***************************************************************************)
(* Spatial utilities.                                                      *)
(***************************************************************************)
\* the element a Python list of length n holds under index i: a negative
\* index counts from the end
Index(i, n) == IF i < 0 THEN i + n ELSE i

\* variant: only the upper limits are tested
InGrid_upper_only(x, y, width, height) == x < width /\ y < height

\* 339: 0 <= x < width and 0 <= y < height
InGrid(x, y, width, height) == 0 <= x /\ x < width /\ 0 <= y /\ y < height

\* variant: the cell is flipped
set_explored_radius_flip(explored, center, radius) ==
    LET height == Len(explored)
        width  == IF height > 0 THEN Len(explored[1]) ELSE 0
    IN [y \in 1..height |->
          [x \in 1..width |->
             IF \E dx \in (0 - radius)..radius, dy \in (0 - radius)..radius :
                   /\ InGrid(center.x + dx, center.y + dy, width, height)
                   /\ Index(center.x + dx, width) = x - 1
                   /\ Index(center.y + dy, height) = y - 1
             THEN 1 - explored[y][x]
             ELSE explored[y][x]]]

\* games_router.py set_explored_radius (332-340): explored[y][x] = 1 for
\* every (x, y) = (cx + dx, cy + dy), dx and dy in -radius..radius, that
\* passes the test of line 339; the grid is changed in place
set_explored_radius(explored, center, radius) ==
    LET height == Len(explored)
        width  == IF height > 0 THEN Len(explored[1]) ELSE 0
    IN [y \in 1..height |->
          [x \in 1..width |->
             IF \E dx \in (0 - radius)..radius, dy \in (0 - radius)..radius :
                   /\ InGrid(center.x + dx, center.y + dy, width, height)
                   /\ Index(center.x + dx, width) = x - 1
                   /\ Index(center.y + dy, height) = y - 1
             THEN 1
             ELSE explored[y][x]]]

\* games_router.py find_random_unexplored_tile: the set of tiles that
\* random.choice may return; the centre when every tile is explored
find_random_unexplored_tile(explored) ==
    LET height == Len(explored)
        width  == IF height > 0 THEN Len(explored[1]) ELSE 0
        unexplored == {Loc(x - 1, y - 1) : <<x, y>> \in
                          {c \in (1..width) \X (1..height) : explored[c[2]][c[1]] = 0}}
    IN IF unexplored # {} THEN unexplored
       ELSE {Loc(width \div 2, height \div 2)}

(***************************************************************************)
(* Entities created by the appliers.                                       *)
(***************************************************************************)
NewUnit(side, n, unit_type, location) ==
    [id |-> side \o "_unit_" \o ToString(n), type |-> unit_type,
     location |-> location, owner |-> side, movement_points |-> 2]

NewCity(side, city_id, location) ==
    [id |-> city_id, name |-> city_id, location |-> location,
     buildings |-> <<>>, population |-> 1, owner |-> side]

DefaultCityId(side, roster) ==
    side \o "_city_" \o ToString(Len(roster.cities) + 1)

ActionType(action) == IF Has(action, "type") THEN action.type ELSE "None"

ActionDetails(action) == IF Has(action, "details") THEN action.details ELSE <<>>

(***************************************************************************)
(* apply_player_actions (games_router.py 428-521).  One step of the loop   *)
(* takes and returns [gs, warnings].                                       *)
(***************************************************************************)
\* 438-450: the first unit with that id moves; a warning when there is none
PlayerMoveUnit(st, details) ==
    IF Has(details, "unitId") /\ Has(details, "destination")
    THEN LET i == FirstIndexOfId(st.gs.player.units, details.unitId)
         IN IF i # 0
            THEN [st EXCEPT !.gs.player.units[i].location = details.destination]
            ELSE [st EXCEPT !.warnings =
                     Append(@, "Unit " \o details.unitId \o " not found.")]
    ELSE st

\* 451-461: the first city with that id gets the structure appended
PlayerBuildStructure(st, details) ==
    IF Has(details, "cityId") /\ Has(details, "structureType")
    THEN LET i == FirstIndexOfId(st.gs.player.cities, details.cityId)
         IN IF i # 0
            THEN [st EXCEPT !.gs.player.cities[i].buildings =
                     Append(@, details.structureType)]
            ELSE st
    ELSE st

RECURSIVE TrainUnits(_, _, _, _, _)
\* 469-477 / 378-386: range(quantity) appends, each id from the current length
TrainUnits(units, side, unit_type, location, quantity) ==
    IF quantity <= 0 THEN units
    ELSE TrainUnits(Append(units, NewUnit(side, Len(units) + 1, unit_type, location)),
                    side, unit_type, location, quantity - 1)

\* 462-478
PlayerTrainUnit(st, details) ==
    IF Has(details, "cityId") /\ Has(details, "unitType")
    THEN LET i == FirstIndexOfId(st.gs.player.cities, details.cityId)
             quantity == IF Has(details, "quantity") THEN details.quantity ELSE 1
         IN IF i # 0
            THEN [st EXCEPT !.gs.player.units =
                     TrainUnits(@, "player", details.unitType,
                                st.gs.player.cities[i].location, quantity)]
            ELSE st
    ELSE st

\* 479-485
PlayerImproveResource(st, details) ==
    IF Has(details, "resourceType") /\ Has(st.gs.player.resources, details.resourceType)
    THEN [st EXCEPT !.gs.player.resources[details.resourceType].improved = TRUE]
    ELSE st

\* 486-491: appended unless a technology of that name is present
PlayerResearchTechnology(st, details) ==
    IF /\ Has(details, "technology")
       /\ ~ \E i \in DOMAIN st.gs.player.technologies :
              st.gs.player.technologies[i].name = details.technology
    THEN [st EXCEPT !.gs.player.technologies =
             Append(@, [name |-> details.technology, turns_remaining |-> 0])]
    ELSE st

\* variant: the first city's reveal starts from a grid of zeros
PlayerFoundCity_fresh_grid(st, details) ==
    LET city_id == IF Has(details, "cityId") THEN details.cityId
                   ELSE DefaultCityId("player", st.gs.player)
    IN IF /\ Has(details, "location")
          /\ FirstIndexOfId(st.gs.player.cities, city_id) = 0
       THEN LET cities == Append(st.gs.player.cities,
                                 NewCity("player", city_id, details.location))
            IN [st EXCEPT !.gs.player.cities = cities,
                          !.gs.map.explored =
                              IF Len(cities) = 1
                              THEN set_explored_radius(ZeroGrid, details.location, 2)
                              ELSE @]
       ELSE st

\* 492-509: needs a location and a fresh id; the first city reveals radius 2
PlayerFoundCity(st, details) ==
    LET city_id == IF Has(details, "cityId") THEN details.cityId
                   ELSE DefaultCityId("player", st.gs.player)
    IN IF /\ Has(details, "location")
          /\ FirstIndexOfId(st.gs.player.cities, city_id) = 0
       THEN LET cities == Append(st.gs.player.cities,
                                 NewCity("player", city_id, details.location))
            IN [st EXCEPT !.gs.player.cities = cities,
                          !.gs.map.explored =
                              IF Len(cities) = 1
                              THEN set_explored_radius(@, details.location, 2)
                              ELSE @]
       ELSE st

\* 510-519: every AI roster loses its units standing on the location
PlayerAttackEnemy(st, details) ==
    IF Has(details, "location") /\ Len(st.gs.ai) > 0
    THEN [st EXCEPT !.gs.ai =
             [k \in DOMAIN st.gs.ai |->
                [st.gs.ai[k] EXCEPT !.units =
                    SelectSeqBy(@, {j \in DOMAIN st.gs.ai[k].units :
                                      st.gs.ai[k].units[j].location # details.location})]]]
    ELSE st

\* 436-520: the dispatch on the action's type; any other type does nothing
PlayerStep(st, action) ==
    LET t == ActionType(action)
        details == ActionDetails(action)
    IN CASE t = "moveUnit" -> PlayerMoveUnit(st, details)
         [] t = "buildStructure" -> PlayerBuildStructure(st, details)
         [] t = "trainUnit" -> PlayerTrainUnit(st, details)
         [] t = "improveResource" -> PlayerImproveResource(st, details)
         [] t = "researchTechnology" -> PlayerResearchTechnology(st, details)
         [] t = "foundCity" -> PlayerFoundCity(st, details)
         [] t = "attackEnemy" -> PlayerAttackEnemy(st, details)
         [] OTHER -> st

RECURSIVE PlayerLoop(_, _)
\* 436: for action in player_actions
PlayerLoop(st, actions) ==
    IF actions = <<>> THEN st
    ELSE PlayerLoop(PlayerStep(st, Head(actions)), Tail(actions))

\* variant: the actions are taken from the end of the list
apply_player_actions_last_first(state, player_actions) ==
    PlayerLoop([gs |-> state, warnings |-> <<>>],
               [i \in 1..Len(player_actions) |->
                   player_actions[Len(player_actions) + 1 - i]])

\* 428-521: works on a deep copy and returns the GameState alone
apply_player_actions(state, player_actions) ==
    PlayerLoop([gs |-> state, warnings |-> <<>>], player_actions)

(***************************************************************************)
(* apply_ai_actions (games_router.py 342-426).  Only roster index 0 of the *)
(* ai list acts (here index 1).  foundCity without a location draws a      *)
(* random tile, so one step yields the set of states it may produce.       *)
(***************************************************************************)
\* 360-365: every unit with that id moves
AIMoveUnit(g, details) ==
    IF Has(details, "unitId") /\ Has(details, "destination")
    THEN [g EXCEPT !.ai[1].units =
             [j \in DOMAIN g.ai[1].units |->
                IF g.ai[1].units[j].id = details.unitId
                THEN [g.ai[1].units[j] EXCEPT !.location = details.destination]
                ELSE g.ai[1].units[j]]]
    ELSE g

\* 366-371: every city with that id gets the structure appended
AIBuildStructure(g, details) ==
    IF Has(details, "cityId") /\ Has(details, "structureType")
    THEN [g EXCEPT !.ai[1].cities =
             [j \in DOMAIN g.ai[1].cities |->
                IF g.ai[1].cities[j].id = details.cityId
                THEN [g.ai[1].cities[j] EXCEPT !.buildings =
                         Append(@, details.structureType)]
                ELSE g.ai[1].cities[j]]]
    ELSE g

RECURSIVE AITrainLoop(_, _, _, _, _, _)
\* 376-386: the loop over the cities has no break, so each city with that
\* id trains quantity units
AITrainLoop(units, cities, j, city_id, unit_type, quantity) ==
    IF j > Len(cities) THEN units
    ELSE AITrainLoop(IF cities[j].id = city_id
                     THEN TrainUnits(units, "ai", unit_type, cities[j].location, quantity)
                     ELSE units,
                     cities, j + 1, city_id, unit_type, quantity)

\* 372-386
AITrainUnit(g, details) ==
    IF Has(details, "cityId") /\ Has(details, "unitType")
    THEN LET quantity == IF Has(details, "quantity") THEN details.quantity ELSE 1
         IN [g EXCEPT !.ai[1].units =
                AITrainLoop(@, g.ai[1].cities, 1, details.cityId,
                            details.unitType, quantity)]
    ELSE g

\* 387-391
AIImproveResource(g, details) ==
    IF Has(details, "resourceType") /\ Has(g.ai[1].resources, details.resourceType)
    THEN [g EXCEPT !.ai[1].resources[details.resourceType].improved = TRUE]
    ELSE g

\* 392-395: appended whenever a name is given
AIResearchTechnology(g, details) ==
    IF Has(details, "technology")
    THEN [g EXCEPT !.ai[1].technologies =
             Append(@, [name |-> details.technology, turns_remaining |-> 0])]
    ELSE g

\* 396-414: appended whatever ids exist; no reveal
AIFoundCity(g, details) ==
    LET city_id == IF Has(details, "cityId") THEN details.cityId
                   ELSE DefaultCityId("ai", g.ai[1])
        locations == IF Has(details, "location") THEN {details.location}
                     ELSE find_random_unexplored_tile(g.map.explored)
    IN {[g EXCEPT !.ai[1].cities = Append(@, NewCity("ai", city_id, location))] :
           location \in locations}

\* variant: the other AI rosters lose their units on the location too
AIAttackEnemy_every_side(g, details) ==
    IF Has(details, "location")
    THEN [g EXCEPT !.player.units =
                       SelectSeqBy(@, {j \in DOMAIN g.player.units :
                                         g.player.units[j].location # details.location}),
                   !.ai = [k \in DOMAIN g.ai |->
                             IF k = 1 THEN g.ai[k]
                             ELSE [g.ai[k] EXCEPT !.units =
                                     SelectSeqBy(@, {j \in DOMAIN g.ai[k].units :
                                        g.ai[k].units[j].location # details.location})]]]
    ELSE g

\* 415-421: the player loses the units standing on the location
AIAttackEnemy(g, details) ==
    IF Has(details, "location")
    THEN [g EXCEPT !.player.units =
             SelectSeqBy(@, {j \in DOMAIN g.player.units :
                               g.player.units[j].location # details.location})]
    ELSE g

\* 358-421: the dispatch on the action's "type" key
AIStep(g, action) ==
    LET t == ActionType(action)
        details == ActionDetails(action)
    IN CASE t = "moveUnit" -> {AIMoveUnit(g, details)}
         [] t = "buildStructure" -> {AIBuildStructure(g, details)}
         [] t = "trainUnit" -> {AITrainUnit(g, details)}
         [] t = "improveResource" -> {AIImproveResource(g, details)}
         [] t = "researchTechnology" -> {AIResearchTechnology(g, details)}
         [] t = "foundCity" -> AIFoundCity(g, details)
         [] t = "attackEnemy" -> {AIAttackEnemy(g, details)}
         [] OTHER -> {g}

RECURSIVE AILoop(_, _)
AILoop(states, actions) ==
    IF actions = <<>> THEN states
    ELSE AILoop(UNION {AIStep(g, Head(actions)) : g \in states}, Tail(actions))

\* variant: the ai list is replaced whether or not it is empty
EnsureAI_always(state) == [state EXCEPT !.ai = <<EmptyRoster>>]

\* 348-352: an empty ai list is replaced by one empty roster
EnsureAI(state) ==
    IF Len(state.ai) = 0 THEN [state EXCEPT !.ai = <<EmptyRoster>>] ELSE state

\* 342-426: the set of GameStates the call may return
apply_ai_actions(state, ai_actions) ==
    AILoop({EnsureAI(state)}, ai_actions)

(***************************************************************************)
(* AI decision normalizer (ai_agent.py).  The oracle's reply is            *)
(*   [kind |-> "exception"]              the API call raises               *)
(*   [kind |-> "garbage"]                text without any {...} span       *)
(*   [kind |-> "badjson"]                a {...} span json.loads rejects   *)
(*   [kind |-> "object", body |-> b]     a JSON object b                   *)
(* An element of an "actions" list is an action dict, or a JSON value that *)
(* is no dict, written [scalar |-> v].                                     *)
(***************************************************************************)
IsDict(v) == ~ Has(v, "scalar")

\* variant: the destination is not taken modulo the map's dimensions
FallbackActions_unwrapped(g, ai_player) ==
    (IF Len(ai_player.cities) = 0
     THEN <<[type |-> "foundCity",
             details |-> [cityId |-> "ai_city_1",
                          location |-> Loc(g.map.size.width \div 2,
                                           g.map.size.height \div 2)]]>>
     ELSE IF Len(ai_player.units) = 0
     THEN <<[type |-> "trainUnit",
             details |-> [cityId |-> ai_player.cities[1].id,
                          unitType |-> "warrior", quantity |-> 1]]>>
     ELSE <<[type |-> "moveUnit",
             details |-> [unitId |-> ai_player.units[1].id,
                          destination |-> Loc(ai_player.units[1].location.x + 1,
                                              ai_player.units[1].location.y + 1)]]>>)
    \o <<[type |-> "endTurn", details |-> <<>>]>>

\* 276-323: the action list the fallback policy builds
FallbackActions(g, ai_player) ==
    (IF Len(ai_player.cities) = 0
     THEN <<[type |-> "foundCity",
             details |-> [cityId |-> "ai_city_1",
                          location |-> Loc(g.map.size.width \div 2,
                                           g.map.size.height \div 2)]]>>
     ELSE IF Len(ai_player.units) = 0
     THEN <<[type |-> "trainUnit",
             details |-> [cityId |-> ai_player.cities[1].id,
                          unitType |-> "warrior", quantity |-> 1]]>>
     ELSE <<[type |-> "moveUnit",
             details |-> [unitId |-> ai_player.units[1].id,
                          destination |->
                              Loc((ai_player.units[1].location.x + 1) % g.map.size.width,
                                  (ai_player.units[1].location.y + 1) % g.map.size.height)]]>>)
    \o <<[type |-> "endTurn", details |-> <<>>]>>

SequenceEntry(idx, action_type, entity, path, movement_points) ==
    [id |-> idx, action_type |-> action_type, entity |-> entity, path |-> path,
     movement_points |-> movement_points,
     state_snapshot_before |-> <<>>, state_snapshot_after |-> <<>>]

\* 276-346: the returned "ai_actions_sequence": one entry per fallback action,
\* carrying the action's type as action_type and nothing of its details
create_fallback_actions(g, ai_player) ==
    LET actions == FallbackActions(g, ai_player)
    IN [idx \in 1..Len(actions) |->
           SequenceEntry(idx, actions[idx].type, <<>>, <<>>, <<>>)]

\* 124-136: the JSON object found in the reply, <<>> when parsing raises
ParseResponse(response) ==
    CASE response.kind = "garbage" -> <<[nokeys |-> TRUE]>>
      [] response.kind = "badjson" -> <<>>
      [] OTHER -> <<response.body>>

\* variant: every action of a known type is kept
Accepted_any_id(ai_player, act) ==
    ActionType(act) \in {"moveUnit", "buildStructure", "trainUnit", "attackEnemy",
                         "foundCity", "improveResource", "researchTechnology", "endTurn"}

\* 195-236: does the ownership filter keep the action
Accepted(ai_player, act) ==
    LET t == ActionType(act)
        details == ActionDetails(act)
    IN CASE t = "moveUnit" ->
              /\ Has(details, "unitId")
              /\ \E j \in DOMAIN ai_player.units : ai_player.units[j].id = details.unitId
         [] t \in {"buildStructure", "trainUnit"} ->
              /\ Has(details, "cityId")
              /\ \E j \in DOMAIN ai_player.cities : ai_player.cities[j].id = details.cityId
         [] t \in {"attackEnemy", "foundCity", "improveResource",
                   "researchTechnology", "endTurn"} -> TRUE
         [] OTHER -> FALSE

\* 201-234: the entry built for an accepted action
EntryOf(idx, act) ==
    LET t == ActionType(act)
        details == ActionDetails(act)
    IN CASE t = "moveUnit" ->
              SequenceEntry(idx, t,
                  <<[id |-> IF Has(details, "unitId") THEN details.unitId ELSE "None",
                     name |-> "Unknown", type |-> "unit"]>>,
                  IF Has(details, "destination") THEN <<details.destination>> ELSE <<>>,
                  <<[initial |-> 2, remaining |-> 0]>>)
         [] t \in {"buildStructure", "trainUnit"} ->
              SequenceEntry(idx, t,
                  <<[id |-> IF Has(details, "cityId") THEN details.cityId ELSE "None",
                     name |-> "Unknown", type |-> "city"]>>,
                  <<>>, <<>>)
         [] t = "attackEnemy" ->
              SequenceEntry(idx, t,
                  <<[id |-> IF Has(details, "unitId") THEN details.unitId ELSE "unknown",
                     name |-> "Unknown", type |-> "unit"]>>,
                  <<>>, <<>>)
         [] OTHER -> SequenceEntry(idx, t, <<>>, <<>>, <<>>)

RECURSIVE BuildSequence(_, _, _)
\* 186-246: the accepted actions in order, each keeping its 1-based position
BuildSequence(ai_player, actions, idx) ==
    IF idx > Len(actions) THEN <<>>
    ELSE (IF Accepted(ai_player, actions[idx])
          THEN <<EntryOf(idx, actions[idx])>> ELSE <<>>)
         \o BuildSequence(ai_player, actions, idx + 1)

\* 71-274: [raised, sequence]; raised when an exception leaves the function
get_ai_actions(state, response) ==
    LET g == EnsureAI(state)
        ai_player == g.ai[1]
        fallback == [raised |-> FALSE, sequence |-> create_fallback_actions(g, ai_player)]
    IN IF response.kind = "exception" THEN fallback
       ELSE LET parsed == ParseResponse(response)
            IN IF parsed = <<>> THEN fallback
               ELSE LET ai_json == parsed[1]
                        actions == IF Has(ai_json, "actions") THEN ai_json.actions ELSE <<>>
                    IN IF actions = <<>> THEN fallback
                       ELSE IF \E i \in DOMAIN actions : ~ IsDict(actions[i])
                       THEN [raised |-> TRUE, sequence |-> <<>>]
                       ELSE [raised |-> FALSE,
                             sequence |-> BuildSequence(ai_player, actions, 1)]

(***************************************************************************)
(* State Merge Guard (ai_agent.py smart_merge_players, 489-524).           *)
(* A field value is [t, v]: t its runtime type, v a code of the value.     *)
(* A city or unit is a function from its keys to values.  In a proposed    *)
(* list, a JSON value that is no dict is [scalar |-> v], and the value     *)
(* under 'cities'/'units' is [kind |-> "list", items |-> s] or, when it is *)
(* no list, [kind |-> "other"].                                            *)
(***************************************************************************)
Min(a, b) == IF a <= b THEN a ELSE b

\* 500: str(orig_p.get('id', '')).startswith('rival'), over the ids in use
StartsWithRival(id) == id \in {"rival1", "rival2"}

\* 503, 514: ai_p.get(key, []) when that is a list, else []
ListOrEmpty(ai_p, key) ==
    IF Has(ai_p, key) /\ ai_p[key].kind = "list" THEN ai_p[key].items ELSE <<>>

\* variant: the proposed value is copied whenever the key is present
MergeEntity_anytype(oe, ae) ==
    [k \in DOMAIN oe |-> IF k \in DOMAIN ae THEN ae[k] ELSE oe[k]]

\* 506-509, 517-520: a copy of the original entity; a key takes the proposed
\* value when the proposed entity has it with the same type
MergeEntity(oe, ae) ==
    [k \in DOMAIN oe |->
        IF k \in DOMAIN ae /\ ae[k].t = oe[k].t THEN ae[k] ELSE oe[k]]

\* 505-510, 516-521: zip pairs the entities up to the shorter list
MergeList(orig_list, ai_list) ==
    [j \in 1..Min(Len(orig_list), Len(ai_list)) |-> MergeEntity(orig_list[j], ai_list[j])]

\* 502, 513: orig_p.get(key, [])
OrigList(orig_p, key) == IF Has(orig_p, key) THEN orig_p[key] ELSE <<>>

\* 498-523: a copy of the original player; for a 'rival' the keys 'cities'
\* and 'units' are set to the merged lists
MergePlayer(orig_p, ai_p) ==
    IF StartsWithRival(orig_p.id)
    THEN [k \in DOMAIN orig_p \cup {"cities", "units"} |->
            IF k \in {"cities", "units"}
            THEN MergeList(OrigList(orig_p, k), ListOrEmpty(ai_p, k))
            ELSE orig_p[k]]
    ELSE orig_p

\* 503, 508: ai_p.get on a value that is no dict, or "k in ac" on one, raises
MergeRaises(orig_p, ai_p) ==
    /\ StartsWithRival(orig_p.id)
    /\ \/ ~ IsDict(ai_p)
       \/ \E key \in {"cities", "units"} :
            \E j \in 1..Min(Len(OrigList(orig_p, key)), Len(ListOrEmpty(ai_p, key))) :
               /\ DOMAIN orig_p[key][j] # {}
               /\ ~ IsDict(ListOrEmpty(ai_p, key)[j])

\* 489-524: zip pairs the players up to the shorter list
smart_merge_players(original_players, ai_players) ==
    LET n == Min(Len(original_players), Len(ai_players))
    IN IF \E i \in 1..n : MergeRaises(original_players[i], ai_players[i])
       THEN [raised |-> TRUE, players |-> <<>>]
       ELSE [raised |-> FALSE,
             players |-> [i \in 1..n |-> MergePlayer(original_players[i], ai_players[i])]]

(***************************************************************************)
(* Reduced-mode normalizer (ai_agent.py get_ai_actions_reduced, 406-488).  *)
(* The oracle's reply is [kind |-> "exception"] when the call raises, else *)
(* [kind |-> "text", garbage, json]: garbage says that the text holds a    *)
(* code fence, a backtick or a line break (463); json is <<>> when         *)
(* json.loads raises and <<v>> for the value v it returns.  A JSON value   *)
(* is [kind |-> "list", items], [kind |-> "dict", body] or                 *)
(* [kind |-> "scalar"].                                                    *)
(***************************************************************************)
\* 417-424: a copy of each player with 'units' and 'cities' defaulted to []
players_fixed(players) ==
    [i \in DOMAIN players |->
        [k \in DOMAIN players[i] \cup {"units", "cities"} |->
            IF k \in DOMAIN players[i] THEN players[i][k] ELSE <<>>]]

\* 415: json.loads(json.dumps(players)), a copy equal to the JSON input
original_players(players) == players

\* 480 and the except clause 483-488: the merge of the original with the
\* proposed players; the original when the merge raises
MergeOrOriginal(players, result_players) ==
    IF result_players.kind # "list" THEN original_players(players)
    ELSE LET merged == smart_merge_players(original_players(players), result_players.items)
         IN IF merged.raised THEN original_players(players) ELSE merged.players

\* 406-488: the value returned, a dict with the one key 'players'
get_ai_actions_reduced(players, reply) ==
    IF reply.kind = "exception" THEN [players |-> players_fixed(players)]
    ELSE IF reply.garbage THEN [players |-> original_players(players)]
    ELSE IF reply.json = <<>> THEN [players |-> original_players(players)]
    ELSE LET ai_json == reply.json[1]
         IN IF ai_json.kind = "dict" /\ Has(ai_json.body, "players")
            THEN [players |-> MergeOrOriginal(players, ai_json.body.players)]
            ELSE IF ai_json.kind = "list"
            THEN [players |-> MergeOrOriginal(players, ai_json)]
            ELSE [players |-> original_players(players)]

(***************************************************************************)
(* Inputs of the merge specification.                                      *)
(***************************************************************************)
StrV(n) == [t |-> "str", v |-> n]
IntV(n) == [t |-> "int", v |-> n]
DictV(n) == [t |-> "dict", v |-> n]

CityA == [id |-> StrV(1), population |-> IntV(1)]
CityB == [id |-> StrV(2), population |-> IntV(2)]
UnitA == [id |-> StrV(3), position |-> DictV(1)]

HumanPlayer == [id |-> "player1", gold |-> IntV(5), cities |-> <<CityA>>, units |-> <<UnitA>>]
RivalPlayer == [id |-> "rival1", gold |-> IntV(7), cities |-> <<CityA, CityB>>, units |-> <<UnitA>>]

OriginalLists == UNION {[1..n -> {HumanPlayer, RivalPlayer}] : n \in 1..MaxPlayers}

\* the player as the oracle echoes it
AsProposed(pl) ==
    [k \in DOMAIN pl |->
        IF k \in {"cities", "units"} THEN [kind |-> "list", items |-> pl[k]] ELSE pl[k]]

Reverse(s) == [i \in 1..Len(s) |-> s[Len(s) + 1 - i]]

RemoveAt(s, i) == SubSeq(s, 1, i - 1) \o SubSeq(s, i + 1, Len(s))

\* what the oracle may put under a key of an entity: the value itself,
\* another value of its type, a value of another type
FieldVariants(val) ==
    {val, [val EXCEPT !.v = @ + 1], [val EXCEPT !.t = IF @ = "int" THEN "str" ELSE "int"]}

\* what the oracle may return for an entity: keys dropped, a key added,
\* values changed, or a value that is no dict
EntityVariants(e) ==
    LET vals == UNION {FieldVariants(e[k]) : k \in DOMAIN e} \cup {IntV(9)}
    IN {[scalar |-> IntV(0)]} \cup
       UNION {{f \in [K -> vals] :
                 \A k \in K : IF k \in DOMAIN e THEN f[k] \in FieldVariants(e[k])
                              ELSE f[k] = IntV(9)} :
              K \in SUBSET (DOMAIN e \cup {"bonus"})}

\* what the oracle may return for the list under 'cities' or 'units'
ListVariants(items) ==
    {[kind |-> "other"]}
    \cup {[kind |-> "list", items |-> SubSeq(items, 1, n)] : n \in 0..Len(items)}
    \cup {[kind |-> "list", items |-> Append(items, CityB)],
          [kind |-> "list", items |-> Reverse(items)]}
    \cup {[kind |-> "list", items |-> [items EXCEPT ![j] = e]] :
            j \in DOMAIN items, e \in UNION {EntityVariants(items[i]) : i \in DOMAIN items}}

\* what the oracle may return for one player
PlayerVariants(pl) ==
    LET base == AsProposed(pl)
    IN {base, [scalar |-> IntV(0)],
        [base EXCEPT !.id = IF StartsWithRival(@) THEN "player1" ELSE "rival1"],
        [base EXCEPT !.gold = IntV(0)],
        [id |-> base.id, gold |-> base.gold, units |-> base.units],
        [id |-> base.id, gold |-> base.gold, cities |-> base.cities]}
       \cup {[base EXCEPT !.cities = l] : l \in ListVariants(pl.cities)}
       \cup {[base EXCEPT !.units = l] : l \in ListVariants(pl.units)}

\* the proposed lists for an original list: players removed, added or
\* reordered, or one player changed
ProposedLists(original) ==
    LET base == [i \in DOMAIN original |-> AsProposed(original[i])]
    IN {SubSeq(base, 1, n) : n \in 0..Len(base)}
       \cup {RemoveAt(base, i) : i \in DOMAIN base}
       \cup {Append(base, AsProposed(RivalPlayer)), Reverse(base)}
       \cup UNION {{[base EXCEPT ![i] = pv] : pv \in PlayerVariants(original[i])} :
                    i \in DOMAIN base}

NoResult == [raised |-> FALSE, players |-> <<>>]

(***************************************************************************)
(* Inputs of the engine specification.                                     *)
(***************************************************************************)
NearLoc == Loc(0, 0)
FarLoc == Loc(MapWidth - 1, MapHeight - 1)
ActLocs == {NearLoc, FarLoc}

Act(type, details) == [type |-> type, details |-> details]

\* the actions one side may submit; side is "player" or "ai"
ActionsOf(side) ==
    {Act("moveUnit", [unitId |-> side \o "_unit_1", destination |-> FarLoc]),
     Act("moveUnit", [unitId |-> side \o "_unit_2", destination |-> NearLoc]),
     Act("buildStructure", [cityId |-> "c1", structureType |-> "granary"]),
     Act("trainUnit", [cityId |-> "c1", unitType |-> "warrior"]),
     Act("trainUnit", [cityId |-> "c1", unitType |-> "warrior", quantity |-> 2]),
     Act("improveResource", [resourceType |-> "wheat"]),
     Act("researchTechnology", [technology |-> "Pottery"]),
     Act("foundCity", [cityId |-> "c1", location |-> NearLoc]),
     Act("foundCity", [cityId |-> "c1", location |-> FarLoc]),
     Act("foundCity", [cityId |-> side \o "_city_2", location |-> FarLoc]),
     Act("foundCity", [location |-> NearLoc]),
     Act("foundCity", [cityId |-> "c1"]),
     Act("attackEnemy", [location |-> NearLoc]),
     Act("attackEnemy", [location |-> FarLoc]),
     Act("dance", <<>>)}

\* the actions that batches of any length are built from
CoreActions ==
    {Act("researchTechnology", [technology |-> "Pottery"]),
     Act("foundCity", [cityId |-> "c1", location |-> NearLoc])}

SeqsOver(S, n) == UNION {[1..k -> S] : k \in 0..n}

\* batches in which a later action depends on an earlier one, or stands
\* next to an action of unknown type
MixedBatches ==
    {<<Act("foundCity", [cityId |-> "c1", location |-> NearLoc]),
       Act("trainUnit", [cityId |-> "c1", unitType |-> "warrior"])>>,
     <<Act("trainUnit", [cityId |-> "c1", unitType |-> "warrior"]),
       Act("foundCity", [cityId |-> "c1", location |-> NearLoc])>>,
     <<Act("dance", <<>>), Act("researchTechnology", [technology |-> "Pottery"])>>,
     <<Act("researchTechnology", [technology |-> "Pottery"]), Act("dance", <<>>)>>}

BatchesOf(side) ==
    {<<a>> : a \in ActionsOf(side)} \cup SeqsOver(CoreActions, MaxBatch) \cup MixedBatches

PlayerBatches == BatchesOf("player")

AIBatches == BatchesOf("ai")

\* replies of the decision oracle: failures, objects without usable
\* actions, and objects with one action or an action and endTurn
Responses ==
    {[kind |-> "exception"], [kind |-> "garbage"], [kind |-> "badjson"],
     [kind |-> "object", body |-> [reasoning |-> "none"]],
     [kind |-> "object", body |-> [actions |-> <<[scalar |-> "endTurn"]>>]]}
    \cup {[kind |-> "object", body |-> [actions |-> b]] :
            b \in {<<>>}
                  \cup {<<a>> : a \in
                          {Act("moveUnit", [unitId |-> id, destination |-> FarLoc]) :
                              id \in {"ai_unit_1", "player_unit_1"}}
                          \cup {Act(t, [cityId |-> id, unitType |-> "warrior",
                                        structureType |-> "granary"]) :
                                  t \in {"buildStructure", "trainUnit"},
                                  id \in {"c1", "player_city_2"}}
                          \cup {Act("attackEnemy", [location |-> NearLoc]),
                                Act("improveResource", [resourceType |-> "wheat"]),
                                Act("dance", <<>>), Act("endTurn", <<>>)}}
                  \cup {<<a, Act("endTurn", <<>>)>> : a \in CoreActions}}

Wheat == [wheat |-> [improved |-> FALSE]]

\* a game as created, before any action; its ai list is still empty
FreshState ==
    GameState(1, "player", EmptyRoster, <<>>, GameMap(ZeroGrid))

\* a game in progress: the player founded c1, trained two units and moved
\* the second; two AI sides, the first with a city and two units
SkirmishState ==
    GameState(2, "player",
        GameStatePlayer(<<NewCity("player", "c1", NearLoc)>>,
                        <<NewUnit("player", 1, "warrior", NearLoc),
                          NewUnit("player", 2, "warrior", FarLoc)>>,
                        <<>>, Wheat),
        <<GameStatePlayer(<<NewCity("ai", "c1", FarLoc)>>,
                          <<NewUnit("ai", 1, "warrior", FarLoc),
                            NewUnit("ai", 2, "warrior", NearLoc)>>,
                          <<>>, Wheat),
          GameStatePlayer(<<>>, <<NewUnit("ai", 1, "warrior", NearLoc)>>, <<>>, <<>>)>>,
        GameMap(set_explored_radius(ZeroGrid, NearLoc, 2)))

InitStates == {FreshState, SkirmishState}

RosterBounded(r) ==
    /\ Len(r.cities) <= MaxCities
    /\ Len(r.units) <= MaxUnits
    /\ Len(r.technologies) <= MaxTechs
    /\ \A i \in DOMAIN r.cities : Len(r.cities[i].buildings) <= MaxBuildings

Bounded(g) ==
    /\ RosterBounded(g.player)
    /\ \A k \in DOMAIN g.ai : RosterBounded(g.ai[k])

NoExtras == [raised |-> FALSE, errors |-> <<>>, sequence |-> <<>>]

(***************************************************************************)
(* The engine specification: a caller holds a GameState and calls the      *)
(* appliers and the normalizer on it.                                      *)
(***************************************************************************)
NoMerge == [phase |-> "idle", original |-> <<>>, proposed |-> <<>>, result |-> NoResult]

NoResponse == [status |-> 0]

Init ==
    /\ gs \in InitStates
    /\ pre = gs
    /\ call = [op |-> "none", batch |-> <<>>, response |-> <<>>]
    /\ ret = NoExtras
    /\ warnings = <<>>
    /\ steps = 0
    /\ m = NoMerge
    /\ arg = gs
    /\ db = <<>>
    /\ resp = NoResponse
    /\ inflight = <<>>

\* gs = apply_player_actions(gs, batch) for a batch of the given set; the
\* GameState is all that comes back (return gs, 521); the function works on
\* deepcopy(gs) (434), so the object passed in stays as it was
PlayerCall(batches) ==
    /\ steps < MaxSteps
    /\ \E batch \in batches :
         LET r == apply_player_actions(gs, batch)
         IN /\ Bounded(r.gs)
            /\ gs' = r.gs
            /\ pre' = gs
            /\ call' = [op |-> "player", batch |-> batch, response |-> <<>>]
            /\ ret' = NoExtras
            /\ warnings' = r.warnings
            /\ steps' = steps + 1
            /\ arg' = gs
            /\ UNCHANGED <<m, db, resp, inflight>>

\* gs = apply_ai_actions(gs, batch) for a batch of the given set; the
\* function works on deepcopy(gs) (348)
AICall(op, batches, response) ==
    /\ steps < MaxSteps
    /\ \E batch \in batches :
         \E g \in apply_ai_actions(gs, batch) :
            /\ Bounded(g)
            /\ gs' = g
            /\ pre' = gs
            /\ call' = [op |-> op, batch |-> batch, response |-> response]
            /\ ret' = NoExtras
            /\ warnings' = <<>>
            /\ steps' = steps + 1
            /\ arg' = gs
            /\ UNCHANGED <<m, db, resp, inflight>>

PlayerBatch == PlayerCall(PlayerBatches)

AIBatch == AICall("ai", AIBatches, <<>>)

\* result = get_ai_actions(gs) for a reply of the given set; an empty ai
\* list of gs is filled in place (73-75)
GetAIActionsFor(responses) ==
    /\ steps < MaxSteps
    /\ \E response \in responses :
         LET r == get_ai_actions(gs, response)
         IN /\ gs' = EnsureAI(gs)
            /\ arg' = EnsureAI(gs)
            /\ pre' = gs
            /\ call' = [op |-> "get_ai_actions", batch |-> <<>>, response |-> <<response>>]
            /\ ret' = [raised |-> r.raised, errors |-> <<>>, sequence |-> r.sequence]
            /\ warnings' = <<>>
            /\ steps' = steps + 1
            /\ UNCHANGED <<m, db, resp, inflight>>

GetAIActions == GetAIActionsFor(Responses)

\* gs = apply_ai_actions(gs, result["ai_actions_sequence"]) after get_ai_actions
ApplyReturned ==
    /\ call.op = "get_ai_actions"
    /\ ~ ret.raised
    /\ AICall("apply_returned", {ret.sequence}, call.response)

Next == PlayerBatch \/ AIBatch \/ GetAIActions \/ ApplyReturned

Spec == Init /\ [][Next]_vars

TypeOK ==
    /\ steps \in 0..MaxSteps
    /\ Bounded(gs)
    /\ call.op \in {"none", "player", "ai", "get_ai_actions", "apply_returned"}

(***************************************************************************)
(* The merge specification: the guard is called on an original list and a  *)
(* list the oracle proposed.                                               *)
(***************************************************************************)
InitMerge ==
    /\ gs = FreshState
    /\ pre = gs
    /\ call = [op |-> "none", batch |-> <<>>, response |-> <<>>]
    /\ ret = NoExtras
    /\ warnings = <<>>
    /\ steps = 0
    /\ arg = gs
    /\ db = <<>>
    /\ resp = NoResponse
    /\ inflight = <<>>
    /\ \E original \in OriginalLists :
         \E proposed \in ProposedLists(original) :
            m = [phase |-> "input", original |-> original, proposed |-> proposed,
                 result |-> NoResult]

\* merged_players = smart_merge_players(original_players, result_players)
Merge ==
    /\ m.phase = "input"
    /\ m' = [m EXCEPT !.phase = "merged",
                      !.result = smart_merge_players(m.original, m.proposed)]
    /\ UNCHANGED <<gs, pre, call, ret, warnings, steps, arg, db, resp, inflight>>

NextMerge == Merge

SpecMerge == InitMerge /\ [][NextMerge]_vars

(***************************************************************************)
(* The reduced-mode specification: get_ai_actions_reduced is called on a   *)
(* players list of an endTurn payload and gets a reply of the oracle.      *)
(***************************************************************************)
\* players as a client may send them: with or without 'units' and 'cities'
RivalNoUnits == [id |-> "rival2", gold |-> IntV(7), cities |-> <<CityA>>]
HumanNoCities == [id |-> "player1", gold |-> IntV(5), units |-> <<UnitA>>]

ReducedInputs ==
    UNION {[1..n -> {HumanPlayer, RivalPlayer, RivalNoUnits, HumanNoCities}] :
              n \in 1..MaxPlayers}

JsonList(items) == [kind |-> "list", items |-> items]

\* the lists the oracle may propose for an input: its echo, the echo with
\* every population raised, the echo cut short, a list of scalars
ProposedFor(players) ==
    LET echo == [i \in DOMAIN players |-> AsProposed(players[i])]
        grown == [i \in DOMAIN players |->
                    IF Has(players[i], "cities")
                    THEN AsProposed([players[i] EXCEPT !.cities =
                            [j \in DOMAIN @ |-> [@[j] EXCEPT !.population.v = @ + 1]]])
                    ELSE echo[i]]
    IN {JsonList(echo), JsonList(grown), JsonList(SubSeq(echo, 1, Len(echo) - 1)),
        JsonList([i \in DOMAIN players |-> [scalar |-> IntV(0)]])}

Text(garbage, json) == [kind |-> "text", garbage |-> garbage, json |-> json]

RepliesFor(players) ==
    {[kind |-> "exception"], Text(TRUE, <<>>), Text(FALSE, <<>>),
     Text(FALSE, <<[kind |-> "scalar"]>>),
     Text(FALSE, <<[kind |-> "dict", body |-> [error |-> "none"]]>>),
     Text(FALSE, <<[kind |-> "dict", body |-> [players |-> [kind |-> "scalar"]]]>>)}
    \cup {Text(g, <<l>>) : g \in BOOLEAN, l \in ProposedFor(players)}
    \cup {Text(FALSE, <<[kind |-> "dict", body |-> [players |-> l]]>>) :
            l \in ProposedFor(players)}

InitReduced ==
    /\ gs = FreshState
    /\ pre = gs
    /\ call = [op |-> "none", batch |-> <<>>, response |-> <<>>]
    /\ ret = NoExtras
    /\ warnings = <<>>
    /\ steps = 0
    /\ arg = gs
    /\ db = <<>>
    /\ resp = NoResponse
    /\ inflight = <<>>
    /\ \E players \in ReducedInputs :
         \E reply \in RepliesFor(players) :
            m = [phase |-> "input", original |-> players, proposed |-> reply,
                 result |-> NoResult]

\* updated_players = get_ai_actions_reduced(players)
ReducedCall ==
    /\ m.phase = "input"
    /\ m' = [m EXCEPT !.phase = "returned",
                      !.result = get_ai_actions_reduced(m.original, m.proposed)]
    /\ UNCHANGED <<gs, pre, call, ret, warnings, steps, arg, db, resp, inflight>>

NextReduced == ReducedCall

SpecReduced == InitReduced /\ [][NextReduced]_vars

(***************************************************************************)
(* The reveal specification: set_explored_radius is called on a grid, and  *)
(* once more with the same arguments.  pre is the grid before the last     *)
(* call and arg the grid after it.                                         *)
(***************************************************************************)
Grids == [1..MapHeight -> [1..MapWidth -> {0, 1}]]

\* centres inside the grid, on its edge, and one step outside it
Centers == {Loc(x, y) : x \in (0 - 1)..MapWidth, y \in (0 - 1)..MapHeight}

Radii == 0..MaxRadius

InitReveal ==
    /\ gs = FreshState
    /\ pre \in Grids
    /\ arg = pre
    /\ call = [op |-> "none", batch |-> <<>>, response |-> <<>>]
    /\ ret = NoExtras
    /\ warnings = <<>>
    /\ steps = 0
    /\ m = NoMerge
    /\ db = <<>>
    /\ resp = NoResponse
    /\ inflight = <<>>

\* set_explored_radius(explored, center, radius)
Reveal ==
    /\ steps = 0
    /\ \E center \in Centers, radius \in Radii :
         /\ arg' = set_explored_radius(arg, center, radius)
         /\ pre' = arg
         /\ call' = [op |-> "set_explored_radius", center |-> center, radius |-> radius]
         /\ steps' = 1
         /\ UNCHANGED <<gs, ret, warnings, m, db, resp, inflight>>

\* the same call once more, on the grid the first call left
RevealAgain ==
    /\ steps = 1
    /\ arg' = set_explored_radius(arg, call.center, call.radius)
    /\ pre' = arg
    /\ steps' = 2
    /\ UNCHANGED <<gs, call, ret, warnings, m, db, resp, inflight>>

NextReveal == Reveal \/ RevealAgain

SpecReveal == InitReveal /\ [][NextReveal]_vars

(***************************************************************************)
(* Request handlers of games_router.py over the games collection.  A       *)
(* stored document is [_id, user_id, name, scenario_id, gamesession,       *)
(* cheats_used]; gamesession is the document's game state, the field the   *)
(* handlers read and write (models.py declares it as game_state).  A       *)
(* handler yields [db, resp]: the collection after the request and the     *)
(* response [status, detail].  A JSON value of a payload is                *)
(* [kind |-> "dict", body, invalid] (invalid: the keys whose value has a   *)
(* type the GameState model rejects), [kind |-> "scalar"], or              *)
(* [kind |-> "str", parsed] with parsed = <<>> when json.loads raises and  *)
(* <<v>> for the value it returns.                                         *)
(***************************************************************************)
\* strings that bson's ObjectId.is_valid accepts
ObjectIds == {"g1", "g2", "g9"}

ObjectIdIsValid(game_id) == game_id \in ObjectIds

\* db.games.find_one: the first document among the matching ones, 0 for None
find_one(hits) ==
    IF hits = {} THEN 0 ELSE CHOOSE i \in hits : \A j \in hits : i <= j

\* db.games.update_one({"_id": object_id}, {"$set": fields})
update_one(coll, object_id, fields) ==
    LET i == find_one({k \in DOMAIN coll : coll[k]._id = object_id})
    IN [k \in DOMAIN coll |->
          IF k = i
          THEN [f \in DOMAIN coll[k] |-> IF f \in DOMAIN fields THEN fields[f] ELSE coll[k][f]]
          ELSE coll[k]]

HTTPException(status_code, kind) == [status |-> status_code, detail |-> [kind |-> kind]]

\* 105-117: by _id and owner, else by name, else by scenario_id
LookupForAction(coll, game_id, user_id) ==
    LET by_id == IF ObjectIdIsValid(game_id)
                 THEN find_one({k \in DOMAIN coll :
                                  coll[k]._id = game_id /\ coll[k].user_id = user_id})
                 ELSE 0
        by_name == find_one({k \in DOMAIN coll : coll[k].name = game_id})
        by_scenario == find_one({k \in DOMAIN coll : coll[k].scenario_id = game_id})
    IN IF by_id # 0 THEN by_id ELSE IF by_name # 0 THEN by_name ELSE by_scenario

\* variant: turn is tested with the other fields
required_fields_with_turn == <<"turn", "current_player", "player", "ai", "map">>

\* 141
required_fields == <<"current_player", "player", "ai", "map">>

\* models.py 47-52: the fields GameState(**gs_data) requires
GameStateFields == {"turn", "current_player", "player", "ai", "map"}

\* 132-140: the value the field checks run on; <<>> when json.loads raises
GsData(gs_raw) ==
    LET decoded == IF gs_raw.kind = "str" THEN gs_raw.parsed ELSE <<gs_raw>>
    IN IF decoded = <<>> THEN <<>>
       ELSE IF decoded[1].kind = "dict" /\ Has(decoded[1].body, "gamesession")
       THEN <<decoded[1].body.gamesession>>
       ELSE decoded

\* 141-171: from the field checks to the write
CheckAndApply(coll, object_id, gs_data, payload) ==
    IF gs_data.kind = "scalar"
    THEN [db |-> coll, resp |-> HTTPException(500, "TypeError")]
    ELSE
    LET keys == IF gs_data.kind = "dict" THEN DOMAIN gs_data.body ELSE {}
        missing == {required_fields[k] : k \in DOMAIN required_fields} \ keys
        failing == (GameStateFields \ keys) \cup (gs_data.invalid \cap GameStateFields)
    IN IF missing # {}
       THEN [db |-> coll,
             resp |-> [status |-> 400, detail |-> [kind |-> "missing", fields |-> missing]]]
       ELSE IF failing # {}
       THEN [db |-> coll,
             resp |-> [status |-> 400, detail |-> [kind |-> "invalid", fields |-> failing]]]
       ELSE IF ~ Has(payload, "action")
       THEN [db |-> coll, resp |-> HTTPException(400, "no action")]
       ELSE IF ~ IsDict(payload.action)
       THEN [db |-> coll, resp |-> HTTPException(400, "error applying action")]
       ELSE LET state == [f \in GameStateFields |-> gs_data.body[f]]
                new_gs == apply_player_actions(state, <<payload.action>>).gs
            IN [db |-> update_one(coll, object_id, [gamesession |-> new_gs]),
                resp |-> [status |-> 200, detail |-> [kind |-> "game"]]]

\* 99-171
apply_action(coll, payload, game_id, user_id) ==
    LET i == LookupForAction(coll, game_id, user_id)
    IN IF i = 0 THEN [db |-> coll, resp |-> HTTPException(404, "game not found")]
       ELSE LET object_id == IF ObjectIdIsValid(game_id) THEN game_id ELSE coll[i]._id
            IN IF ~ Has(payload, "gamesession")
               THEN [db |-> coll, resp |-> HTTPException(400, "no gamesession")]
               ELSE IF GsData(payload.gamesession) = <<>>
               THEN [db |-> coll, resp |-> HTTPException(400, "no valid JSON")]
               ELSE CheckAndApply(coll, object_id, GsData(payload.gamesession)[1], payload)

CheatResponse(success, message, gamesession) ==
    [success |-> success, message |-> message, gamesession |-> gamesession]

\* cheat_handler.py 28-33: population and growth of the city go up by one
LevelUp(city) ==
    [k \in DOMAIN city \cup {"population", "growth"} |->
        IF k \in {"population", "growth"}
        THEN (IF Has(city, k) THEN city[k] ELSE 0) + 1
        ELSE city[k]]

\* cheat_handler.py 8-72; the loop over the player's cities returns in its
\* first round, on a match (51) or with 'not found' (59)
handle_cheat(game_gs, req) ==
    IF req.cheat_code = "level_up" /\ req.target.type # "city"
    THEN CheatResponse(FALSE, "only cities", game_gs)
    ELSE IF req.cheat_code = "level_up" /\ Len(game_gs.player.cities) > 0
    THEN IF game_gs.player.cities[1].id = req.target.id
         THEN CheatResponse(TRUE, "leveled up",
                  [game_gs EXCEPT !.player.cities[1] = LevelUp(@)])
         ELSE CheatResponse(FALSE, "city not found", game_gs)
    ELSE CheatResponse(FALSE, "unknown cheat code", game_gs)

\* 195-236
cheat(coll, req, game_id, user_id) ==
    IF req.game_id # game_id
    THEN [db |-> coll, resp |-> HTTPException(400, "ids must match")]
    ELSE IF ~ ObjectIdIsValid(game_id)
    THEN [db |-> coll, resp |-> HTTPException(500, "InvalidId")]
    ELSE LET i == find_one({k \in DOMAIN coll : coll[k]._id = game_id})
         IN IF i = 0 THEN [db |-> coll, resp |-> HTTPException(404, "game not found")]
            ELSE LET cheat_res == handle_cheat(coll[i].gamesession, req)
                 IN [db |-> update_one(coll, game_id,
                               [gamesession |-> cheat_res.gamesession,
                                cheats_used |-> Append(coll[i].cheats_used, req.cheat_code)]),
                     resp |-> [status |-> 200,
                               detail |-> [kind |-> "cheat", success |-> cheat_res.success,
                                           message |-> cheat_res.message]]]

\* 174-192; the collection is neither read nor written
end_turn_minimal(coll, payload, reply) ==
    IF ~ Has(payload, "players") \/ payload.players.kind # "list"
       \/ payload.players.items = <<>>
    THEN [db |-> coll, resp |-> HTTPException(400, "no players list")]
    ELSE [db |-> coll,
          resp |-> [status |-> 200,
                    detail |-> [kind |-> "players",
                                players |-> get_ai_actions_reduced(payload.players.items,
                                                                   reply)]]]

\* 523-560; the stored game state is a GameState, neither a str nor a dict
\* with 'players', so no players list is extracted (544-556)
end_turn_ai_units(coll, game_id, user_id) ==
    IF ~ ObjectIdIsValid(game_id)
    THEN [db |-> coll, resp |-> HTTPException(500, "InvalidId")]
    ELSE IF find_one({k \in DOMAIN coll :
                        coll[k]._id = game_id /\ coll[k].user_id = user_id}) = 0
    THEN [db |-> coll, resp |-> HTTPException(404, "game not found")]
    ELSE [db |-> coll, resp |-> HTTPException(400, "no players")]

(***************************************************************************)
(* The request specification: two callers send action, cheat and end-turn  *)
(* requests to a collection of two games.  pre is the collection before    *)
(* the last request, call the request and resp its response.               *)
(***************************************************************************)
Game(id, user_id, name, scenario_id, gamesession) ==
    [_id |-> id, user_id |-> user_id, name |-> name, scenario_id |-> scenario_id,
     gamesession |-> gamesession, cheats_used |-> <<>>]

\* a game of turn 2 whose player holds two cities
TwoCityState ==
    GameState(2, "player",
        GameStatePlayer(<<NewCity("player", "c1", NearLoc),
                          NewCity("player", "c2", FarLoc)>>, <<>>, <<>>, <<>>),
        <<EmptyRoster>>,
        GameMap(set_explored_radius(ZeroGrid, NearLoc, 2)))

Users == {"alice", "bob"}

\* the game ids of requests: an _id, a name, a scenario id, a well-formed
\* ObjectId of no game, a string that is no ObjectId
GameIds == {"g1", "alpha", "s1", "g9", "nope"}

DictValue(body) == [kind |-> "dict", body |-> body, invalid |-> {}]

\* the JSON object holding the given fields of a GameState
StateValue(g, fields) == DictValue([f \in fields |-> g[f]])

FoundC3 == Act("foundCity", [cityId |-> "c3", location |-> FarLoc])

\* payloads of the action request with every field of the state present
WholePayloads ==
    {[gamesession |-> StateValue(g, GameStateFields), action |-> a] :
        g \in {FreshState, TwoCityState}, a \in {FoundC3, [scalar |-> "foundCity"]}}
    \cup {[action |-> FoundC3],
          [gamesession |-> StateValue(FreshState, GameStateFields)],
          [gamesession |-> [kind |-> "str", parsed |-> <<>>], action |-> FoundC3],
          [gamesession |-> [kind |-> "str",
                            parsed |-> <<StateValue(FreshState, GameStateFields)>>],
           action |-> FoundC3],
          [gamesession |-> DictValue([gamesession |->
                                         StateValue(TwoCityState, GameStateFields)]),
           action |-> FoundC3]}

\* payloads whose state lacks fields, is a value of another kind, or holds
\* a value of the wrong type
PartialPayloads ==
    {[gamesession |-> StateValue(FreshState, GameStateFields \ lacking),
      action |-> FoundC3] : lacking \in (SUBSET GameStateFields) \ {{}}}
    \cup {[gamesession |-> [kind |-> "scalar"], action |-> FoundC3],
          [gamesession |-> [StateValue(FreshState, GameStateFields)
                               EXCEPT !.invalid = {"turn"}],
           action |-> FoundC3]}

ActionRequests ==
    {[op |-> "action", user |-> u, game_id |-> id, payload |-> p] :
        u \in Users, id \in GameIds \ {"nope"}, p \in WholePayloads}
    \cup {[op |-> "action", user |-> "alice", game_id |-> "g1", payload |-> p] :
            p \in PartialPayloads}

CheatRequest(game_id, cheat_code, type, id) ==
    [game_id |-> game_id, cheat_code |-> cheat_code, target |-> [type |-> type, id |-> id]]

CheatRequests ==
    {[op |-> "cheat", user |-> u, game_id |-> "g1",
      payload |-> CheatRequest("g1", code, target[1], target[2])] :
        u \in Users, code \in {"level_up", "god_mode"},
        target \in {<<"city", "c1">>, <<"city", "c2">>, <<"unit", "c1">>}}
    \cup {[op |-> "cheat", user |-> "bob", game_id |-> id,
           payload |-> CheatRequest(id, "level_up", "city", "c1")] :
            id \in {"g2", "g9", "nope"}}
    \cup {[op |-> "cheat", user |-> "bob", game_id |-> "g2",
           payload |-> CheatRequest("g1", "level_up", "city", "c1")]}

EndTurnRequests ==
    {[op |-> "endTurn", user |-> "alice", game_id |-> "g1", payload |-> p, reply |-> r] :
        p \in {[players |-> JsonList(<<HumanPlayer, RivalPlayer>>)],
               [players |-> JsonList(<<>>)], [turn |-> 2]},
        r \in {[kind |-> "exception"],
               Text(FALSE, <<JsonList(<<AsProposed(HumanPlayer), AsProposed(RivalPlayer)>>)>>)}}

AIUnitsRequests ==
    {[op |-> "endTurn/ai-units", user |-> u, game_id |-> id, payload |-> <<>>] :
        u \in Users, id \in {"g1", "nope"}}

InitApi ==
    /\ gs = FreshState
    /\ pre = <<Game("g1", "alice", "alpha", "s1", TwoCityState),
               Game("g2", "bob", "beta", "s1", FreshState)>>
    /\ db = pre
    /\ call = [op |-> "none", batch |-> <<>>, response |-> <<>>]
    /\ resp = NoResponse
    /\ inflight = <<>>
    /\ ret = NoExtras
    /\ warnings = <<>>
    /\ steps = 0
    /\ m = NoMerge
    /\ arg = gs

\* the handler's outcome becomes the collection and the response
Handled(request, outcome) ==
    /\ steps < MaxSteps
    /\ db' = outcome.db
    /\ resp' = outcome.resp
    /\ pre' = db
    /\ call' = request
    /\ steps' = steps + 1
    /\ UNCHANGED <<gs, ret, warnings, m, arg, inflight>>

ApplyAction ==
    \E r \in ActionRequests : Handled(r, apply_action(db, r.payload, r.game_id, r.user))

Cheat ==
    \E r \in CheatRequests : Handled(r, cheat(db, r.payload, r.game_id, r.user))

EndTurnMinimal ==
    \E r \in EndTurnRequests : Handled(r, end_turn_minimal(db, r.payload, r.reply))

EndTurnAIUnits ==
    \E r \in AIUnitsRequests : Handled(r, end_turn_ai_units(db, r.game_id, r.user))

NextApi == ApplyAction \/ Cheat \/ EndTurnMinimal \/ EndTurnAIUnits

SpecApi == InitApi /\ [][NextApi]_vars

(***************************************************************************)
(* The race specification: requests for the game g1 are handled at once.   *)
(* A handler awaits find_one, computes from the document it got, and       *)
(* awaits update_one; the other handlers run between the two awaits.       *)
(* pre is the collection before the requests.                              *)
(***************************************************************************)
\* the handler of a request, run on the collection it read
Handler(coll, r) ==
    IF r.op = "cheat"
    THEN cheat(coll, r.payload, r.game_id, r.user)
    ELSE apply_action(coll, r.payload, r.game_id, r.user)

\* alice sent cheats and actions for g1, under its _id and under its name;
\* none is read yet
InitRace ==
    LET requests ==
            {r \in CheatRequests :
                /\ r.game_id = "g1" /\ r.user = "alice"
                /\ <<r.payload.cheat_code, r.payload.target.type, r.payload.target.id>>
                     \in {<<"level_up", "city", "c1">>, <<"god_mode", "city", "c1">>,
                          <<"level_up", "unit", "c1">>}}
            \cup {r \in ActionRequests :
                    /\ r.user = "alice" /\ r.game_id \in {"g1", "alpha"}
                    /\ r.payload = [gamesession |-> StateValue(TwoCityState, GameStateFields),
                                    action |-> FoundC3]}
    IN /\ gs = FreshState
       /\ pre = <<Game("g1", "alice", "alpha", "s1", TwoCityState),
                  Game("g2", "bob", "beta", "s1", FreshState)>>
       /\ db = pre
       /\ call = [op |-> "none", batch |-> <<>>, response |-> <<>>]
       /\ resp = NoResponse
       /\ ret = NoExtras
       /\ warnings = <<>>
       /\ steps = 0
       /\ m = NoMerge
       /\ arg = gs
       /\ inflight \in [1..MaxInflight ->
                           {[pc |-> "received", request |-> r, loaded |-> <<>>,
                             resp |-> NoResponse] : r \in requests}]

\* await db.games.find_one (105-117, 213): the handler gets the documents
\* as they are stored now
Load ==
    \E i \in DOMAIN inflight :
        /\ inflight[i].pc = "received"
        /\ inflight' = [inflight EXCEPT ![i].pc = "loaded", ![i].loaded = db]
        /\ UNCHANGED <<gs, pre, call, ret, warnings, steps, m, arg, db, resp>>

\* await db.games.update_one (159-164, 221-233): an unconditional $set,
\* keyed by _id (103-104, 212), of the fields the handler computed from the
\* document it read (160-163, 223-231)
Store ==
    \E i \in DOMAIN inflight :
        /\ inflight[i].pc = "loaded"
        /\ LET r == inflight[i].request
               loaded == inflight[i].loaded
               outcome == Handler(loaded, r)
               object_id == IF ObjectIdIsValid(r.game_id)
                            THEN r.game_id
                            ELSE loaded[LookupForAction(loaded, r.game_id, r.user)]._id
               doc == outcome.db[find_one({k \in DOMAIN loaded :
                                             loaded[k]._id = object_id})]
               fields == IF r.op = "cheat"
                         THEN [gamesession |-> doc.gamesession,
                               cheats_used |-> doc.cheats_used]
                         ELSE [gamesession |-> doc.gamesession]
           IN /\ db' = IF outcome.resp.status = 200
                       THEN update_one(db, object_id, fields)
                       ELSE db
              /\ inflight' = [inflight EXCEPT ![i].pc = "done", ![i].resp = outcome.resp]
        /\ UNCHANGED <<gs, pre, call, ret, warnings, steps, m, arg, resp>>

SpecRace == InitRace /\ [][Load \/ Store]_vars

(***************************************************************************)
(* The normalizer specification: get_ai_actions is called on a game and    *)
(* gets a reply whose actions name units and cities of the AI roster, of   *)
(* the player and of nobody.                                               *)
(***************************************************************************)
\* the game in progress with the player's city under an id of its own
RivalryState ==
    [SkirmishState EXCEPT !.player.cities[1].id = "player_city_2",
                          !.player.cities[1].name = "player_city_2"]

OwnershipActions ==
    {Act("moveUnit", [unitId |-> "ai_unit_1", destination |-> NearLoc]),
     Act("moveUnit", [unitId |-> "player_unit_1", destination |-> FarLoc]),
     Act("moveUnit", [destination |-> FarLoc]),
     Act("trainUnit", [cityId |-> "c1", unitType |-> "warrior"]),
     Act("buildStructure", [cityId |-> "player_city_2", structureType |-> "granary"]),
     Act("dance", <<>>),
     Act("endTurn", <<>>)}

OwnershipResponses ==
    {[kind |-> "object", body |-> [actions |-> b]] :
        b \in SeqsOver(OwnershipActions, MaxBatch) \ {<<>>}}

InitNormalize ==
    /\ gs \in InitStates \cup {RivalryState}
    /\ pre = gs
    /\ call = [op |-> "none", batch |-> <<>>, response |-> <<>>]
    /\ ret = NoExtras
    /\ warnings = <<>>
    /\ steps = 0
    /\ m = NoMerge
    /\ arg = gs
    /\ db = <<>>
    /\ resp = NoResponse
    /\ inflight = <<>>

NormalizeCall == GetAIActionsFor(OwnershipResponses)

NextNormalize == NormalizeCall

SpecNormalize == InitNormalize /\ [][NextNormalize]_vars

(***************************************************************************)
(* The engine restricted to batches of trainUnit and attackEnemy actions.  *)
(***************************************************************************)
TrainAttackBatches ==
    SeqsOver({Act("trainUnit", [cityId |-> "c1", unitType |-> "warrior"]),
              Act("trainUnit", [cityId |-> "c1", unitType |-> "warrior", quantity |-> 2]),
              Act("attackEnemy", [location |-> NearLoc]),
              Act("attackEnemy", [location |-> FarLoc])}, MaxBatch)

PlayerTrainAttack == PlayerCall(TrainAttackBatches)

AITrainAttack == AICall("ai", TrainAttackBatches, <<>>)

NextTrainAttack == PlayerTrainAttack \/ AITrainAttack

SpecTrainAttack == Init /\ [][NextTrainAttack]_vars

(***************************************************************************)
(* The fallback specification: create_fallback_actions is called on a game *)
(* whose AI roster has a city or none, and no unit or units standing on    *)
(* the map, on its edges or beside it.  ret holds the returned sequence    *)
(* and the action list the function built for it.                          *)
(***************************************************************************)
InitFallback ==
    LET locs == {Loc(x, y) : x \in -1..MapWidth, y \in -1..MapHeight}
        rosters ==
            {GameStatePlayer(cities, units, <<>>, <<>>) :
                cities \in {<<>>, <<NewCity("ai", "ai_city_1", NearLoc)>>},
                units \in {<<>>}
                          \cup {<<NewUnit("ai", n, "warrior", loc)>> :
                                    n \in 1..2, loc \in locs}
                          \cup {<<NewUnit("ai", 1, "warrior", loc),
                                  NewUnit("ai", 2, "warrior", NearLoc)>> :
                                    loc \in {NearLoc, FarLoc}}}
    IN /\ gs \in {[FreshState EXCEPT !.ai = <<roster>>] : roster \in rosters}
       /\ pre = gs
       /\ call = [op |-> "none", batch |-> <<>>, response |-> <<>>]
       /\ ret = NoExtras
       /\ warnings = <<>>
       /\ steps = 0
       /\ m = NoMerge
       /\ arg = gs
       /\ db = <<>>
       /\ resp = NoResponse
       /\ inflight = <<>>

\* result = create_fallback_actions(gs, gs.ai[0])
FallbackCall ==
    /\ steps = 0
    /\ ret' = [raised |-> FALSE, errors |-> <<>>,
               sequence |-> create_fallback_actions(gs, gs.ai[1]),
               actions |-> FallbackActions(gs, gs.ai[1])]
    /\ call' = [op |-> "create_fallback_actions", batch |-> <<>>, response |-> <<>>]
    /\ pre' = gs
    /\ arg' = gs
    /\ steps' = steps + 1
    /\ UNCHANGED <<gs, warnings, m, db, resp, inflight>>

SpecFallback == InitFallback /\ [][FallbackCall]_vars

(***************************************************************************)
(* The exploration specification: on a game whose grid is partly explored, *)
(* the player and the AI found cities, move and attack, and                *)
(* set_explored_radius is called on the game's grid.                       *)
(***************************************************************************)
ExploreBatches(side) ==
    {<<a>> : a \in {Act("foundCity", [cityId |-> "c1", location |-> NearLoc]),
                    Act("foundCity", [cityId |-> "c2", location |-> FarLoc]),
                    Act("foundCity", [cityId |-> "c1"]),
                    Act("moveUnit", [unitId |-> side \o "_unit_1", destination |-> FarLoc]),
                    Act("attackEnemy", [location |-> NearLoc])}}
    \cup {<<Act("foundCity", [cityId |-> "c1", location |-> FarLoc]),
            Act("foundCity", [cityId |-> "c2", location |-> NearLoc])>>}

\* a game without cities whose grid is unexplored, explored on the far
\* cell, or explored around the near cell
InitExplore ==
    /\ gs \in {[FreshState EXCEPT !.map.explored = grid] :
                 grid \in {ZeroGrid, set_explored_radius(ZeroGrid, FarLoc, 0),
                           set_explored_radius(ZeroGrid, NearLoc, 1)}}
    /\ pre = gs
    /\ call = [op |-> "none", batch |-> <<>>, response |-> <<>>]
    /\ ret = NoExtras
    /\ warnings = <<>>
    /\ steps = 0
    /\ m = NoMerge
    /\ arg = gs
    /\ db = <<>>
    /\ resp = NoResponse
    /\ inflight = <<>>

\* set_explored_radius(gs.map.explored, center, radius): the grid is
\* changed in place; the centre is a corner of the map or a cell beside it
RevealGrid ==
    /\ steps < MaxSteps
    /\ \E center \in {NearLoc, FarLoc, Loc(0 - 1, MapHeight)}, radius \in {0, 1, MaxRadius} :
         /\ gs' = [gs EXCEPT !.map.explored = set_explored_radius(@, center, radius)]
         /\ call' = [op |-> "set_explored_radius", batch |-> <<>>, response |-> <<>>,
                     center |-> center, radius |-> radius]
    /\ pre' = gs
    /\ arg' = gs'
    /\ ret' = NoExtras
    /\ warnings' = <<>>
    /\ steps' = steps + 1
    /\ UNCHANGED <<m, db, resp, inflight>>

SpecExplore ==
    InitExplore
    /\ [][\/ PlayerCall(ExploreBatches("player"))
          \/ AICall("ai", ExploreBatches("ai"), <<>>)
          \/ RevealGrid]_vars

(***************************************************************************)
(* Properties of the appliers.                                             *)
(***************************************************************************)
\* the GameState after the first i actions of the last player batch
PlayerStateAt(i) == apply_player_actions(pre, SubSeq(call.batch, 1, i)).gs

ApplierOps == {"player", "ai", "apply_returned"}

\* the roster that acted in the last applier call, before and after it
ActingBefore == IF call.op = "player" THEN pre.player ELSE EnsureAI(pre).ai[1]
ActingAfter == IF call.op = "player" THEN gs.player ELSE gs.ai[1]
ActingSide == IF call.op = "player" THEN "player" ELSE "ai"

SingleAction(type) ==
    /\ call.op \in ApplierOps
    /\ Len(call.batch) = 1
    /\ ActionType(call.batch[1]) = type

\* C1: a player moveUnit whose unitId no unit of the player's roster holds
\* leaves the state unchanged, and the caller of apply_player_actions gets an
\* error that names that unitId.
C1_AbsentMoveUnitReported ==
    call.op = "player" =>
        \A i \in DOMAIN call.batch :
            LET a == call.batch[i]
                before == PlayerStateAt(i - 1)
                after == PlayerStateAt(i)
            IN (/\ ActionType(a) = "moveUnit"
                /\ Has(a.details, "unitId")
                /\ \A j \in DOMAIN before.player.units :
                       before.player.units[j].id # a.details.unitId)
               => /\ after = before
                  /\ \E e \in DOMAIN ret.errors : ret.errors[e].unitId = a.details.unitId

\* C2: trainUnit with quantity q on a city id of the acting roster adds
\* exactly q units to that roster, each at the city's location, owned by the
\* acting side, with movement_points 2; no other roster's unit count changes.
C2_TrainUnitAddsQuantity ==
    (SingleAction("trainUnit") /\ call.op # "apply_returned") =>
        LET d == call.batch[1].details
            q == IF Has(d, "quantity") THEN d.quantity ELSE 1
            ci == FirstIndexOfId(ActingBefore.cities, d.cityId)
            n == Len(ActingBefore.units)
        IN ci # 0 =>
            /\ Len(ActingAfter.units) = n + q
            /\ \A j \in (n + 1)..Len(ActingAfter.units) :
                  /\ ActingAfter.units[j].location = ActingBefore.cities[ci].location
                  /\ ActingAfter.units[j].owner = ActingSide
                  /\ ActingAfter.units[j].movement_points = 2
            /\ IF call.op = "player"
               THEN /\ Len(gs.ai) = Len(pre.ai)
                    /\ \A k \in DOMAIN pre.ai : Len(gs.ai[k].units) = Len(pre.ai[k].units)
               ELSE /\ Len(gs.player.units) = Len(pre.player.units)
                    /\ \A k \in DOMAIN pre.ai :
                          k > 1 => Len(gs.ai[k].units) = Len(pre.ai[k].units)

UniqueIds(s) == \A i, j \in DOMAIN s : i # j => s[i].id # s[j].id

\* C3: after any sequence of trainUnit and attackEnemy batches of both
\* sides, the unit ids within each roster are pairwise different.
C3_UnitIdsUnique ==
    /\ UniqueIds(gs.player.units)
    /\ \A k \in DOMAIN gs.ai : UniqueIds(gs.ai[k].units)

\* C4 as claimed: an empty batch returns a state equal to the input, for the
\* player-side and the AI-side applier and for every input state.
C4_EmptyBatchDeepEqual ==
    (call.op \in ApplierOps /\ Len(call.batch) = 0) => gs = pre

\* C4: an empty batch returns a state equal to the input, for
\* apply_player_actions on every state and for apply_ai_actions on every
\* state whose ai list is not empty; on an empty ai list apply_ai_actions
\* returns the input with ai set to one empty roster.
C4_EmptyBatchEqualUpToLazyAI ==
    (call.op \in ApplierOps /\ Len(call.batch) = 0) =>
        IF call.op # "player" /\ Len(pre.ai) = 0
        THEN gs = [pre EXCEPT !.ai = <<EmptyRoster>>]
        ELSE gs = pre

\* an empty AI batch was applied to a state whose ai list was empty
C4_Witness ==
    /\ call.op = "ai"
    /\ Len(call.batch) = 0
    /\ Len(pre.ai) = 0
    /\ gs.ai = <<EmptyRoster>>

SameResearchTwice ==
    /\ call.op \in {"player", "ai"}
    /\ Len(call.batch) = 2
    /\ ActionType(call.batch[1]) = "researchTechnology"
    /\ ActionType(call.batch[2]) = "researchTechnology"
    /\ call.batch[1].details.technology = call.batch[2].details.technology

\* C5: researchTechnology for the same name twice, on a roster without it,
\* leaves exactly one entry of that name, and the second application is
\* reported as one validation error.
C5_ResearchTwiceOnceAndReported ==
    LET name == call.batch[1].details.technology
    IN (/\ SameResearchTwice
        /\ \A i \in DOMAIN ActingBefore.technologies :
               ActingBefore.technologies[i].name # name)
       => /\ Cardinality({i \in DOMAIN ActingAfter.technologies :
                             ActingAfter.technologies[i].name = name}) = 1
          /\ Len(ret.errors) = 1

OracleFailed ==
    /\ Len(call.response) = 1
    /\ call.response[1].kind \in {"exception", "garbage", "badjson"}

\* C6: when the oracle throws or returns unparsable output, get_ai_actions
\* yields a non-empty sequence whose last entry is endTurn, and applying that
\* sequence with apply_ai_actions to an AI roster without cities and units
\* leaves that roster with exactly one city.
C6_FallbackFoundsCity ==
    /\ (call.op = "get_ai_actions" /\ OracleFailed) =>
          /\ Len(ret.sequence) > 0
          /\ ret.sequence[Len(ret.sequence)].action_type = "endTurn"
    /\ (/\ call.op = "apply_returned"
        /\ OracleFailed
        /\ Len(pre.ai[1].cities) = 0
        /\ Len(pre.ai[1].units) = 0)
       => Len(gs.ai[1].cities) = 1

\* C7: get_ai_actions never raises and never returns an empty sequence,
\* whatever the oracle replies.
C7_NeverRaisesNeverEmpty ==
    call.op = "get_ai_actions" => (~ ret.raised /\ Len(ret.sequence) > 0)

(***************************************************************************)
(* Properties of the State Merge Guard.                                    *)
(***************************************************************************)
Merged == m.phase = "merged" /\ ~ m.result.raised

\* C8: the merge returns as many players as the original has, in the same
\* order, and each merged player's city and unit lists have the length and
\* order of the original player's.
C8_MergeKeepsStructure ==
    Merged =>
        /\ Len(m.result.players) = Len(m.original)
        /\ \A i \in DOMAIN m.result.players :
              /\ i \in DOMAIN m.original
              /\ m.result.players[i].id = m.original[i].id
              /\ Len(m.result.players[i].cities) = Len(m.original[i].cities)
              /\ Len(m.result.players[i].units) = Len(m.original[i].units)

\* C9: every player of the original whose id does not start with 'rival'
\* is in the merge result, at its position, equal to the original.
C9_HumanPlayersVerbatim ==
    Merged =>
        \A i \in DOMAIN m.original :
            ~ StartsWithRival(m.original[i].id) =>
                /\ i \in DOMAIN m.result.players
                /\ m.result.players[i] = m.original[i]

\* the claimed value of key k of the entity merged from oe and ae
ClaimedField(oe, ae, k) ==
    IF k \in DOMAIN ae /\ ae[k].t = oe[k].t THEN ae[k] ELSE oe[k]

\* C10: every merged city and unit of a 'rival' player has exactly the keys
\* of the original entity at its position; each key holds the proposed value
\* when the proposed entity has the key with a value of the same type, and
\* the original value otherwise.
C10_RivalEntitiesMergedFieldwise ==
    Merged =>
        \A i \in DOMAIN m.result.players :
            StartsWithRival(m.original[i].id) =>
                \A key \in {"cities", "units"} :
                    \A j \in DOMAIN m.result.players[i][key] :
                        LET me == m.result.players[i][key][j]
                            oe == m.original[i][key][j]
                            ae == m.proposed[i][key].items[j]
                        IN /\ DOMAIN me = DOMAIN oe
                           /\ \A k \in DOMAIN oe : me[k] = ClaimedField(oe, ae, k)

\* a rival's merged city took one proposed value and kept its original one
\* under a key the proposal gave another type
C10_Witness ==
    /\ Merged
    /\ \E i \in DOMAIN m.result.players :
          /\ StartsWithRival(m.original[i].id)
          /\ \E j \in DOMAIN m.result.players[i].cities :
                LET me == m.result.players[i].cities[j]
                    oe == m.original[i].cities[j]
                    ae == m.proposed[i].cities.items[j]
                IN \/ /\ "population" \in DOMAIN ae
                      /\ ae.population.t = "int"
                      /\ ae.population # oe.population
                      /\ me.population = ae.population
                      /\ "id" \in DOMAIN ae
                      /\ ae.id.t # "str"
                      /\ me.id = oe.id

(***************************************************************************)
(* Properties of the reduced-mode normalizer.                              *)
(***************************************************************************)
\* the oracle call failed, or its reply is contaminated or no JSON
ReplyUnusable ==
    \/ m.proposed.kind = "exception"
    \/ m.proposed.kind = "text" /\ (m.proposed.garbage \/ m.proposed.json = <<>>)

\* C11: when the oracle call fails, or its reply holds a code fence, a
\* backtick or a line break, or is no JSON, get_ai_actions_reduced returns
\* the players list it was given, unchanged.
C11_UnusableReplyReturnsInput ==
    (m.phase = "returned" /\ ReplyUnusable) => m.result.players = m.original

(***************************************************************************)
(* Properties of set_explored_radius.                                      *)
(***************************************************************************)
\* C12: set_explored_radius applied a second time with the same centre and
\* radius leaves the grid as the first application left it.
C12_RevealIdempotent ==
    [][steps = 1 /\ steps' = 2 => arg' = arg]_vars

\* the second application has run on a grid that the first one changed
C12_Witness ==
    /\ steps = 2
    /\ arg = pre
    /\ \E y \in DOMAIN arg : \E x \in DOMAIN arg[y] : arg[y][x] = 1
    /\ \E y \in DOMAIN arg : \E x \in DOMAIN arg[y] : arg[y][x] = 0
    /\ InGrid(call.center.x, call.center.y, MapWidth, MapHeight)

Abs(n) == IF n < 0 THEN 0 - n ELSE n

Chebyshev(x, y, center) ==
    IF Abs(x - center.x) >= Abs(y - center.y) THEN Abs(x - center.x)
    ELSE Abs(y - center.y)

\* C13: after set_explored_radius(grid, center, r) the grid has the rows and
\* columns it had; the cell (x, y) is 1 when max(|x-cx|, |y-cy|) <= r and
\* holds its previous value otherwise, also for a centre on the edge of the
\* grid or outside it.
C13_RevealSquareClipped ==
    steps >= 1 =>
        /\ DOMAIN arg = DOMAIN pre
        /\ \A y \in DOMAIN arg :
              /\ DOMAIN arg[y] = DOMAIN pre[y]
              /\ \A x \in DOMAIN arg[y] :
                    arg[y][x] = IF Chebyshev(x - 1, y - 1, call.center) <= call.radius
                                THEN 1 ELSE pre[y][x]

\* a reveal around a centre outside the grid set a cell and left a 0 cell
C13_Witness ==
    /\ steps = 1
    /\ ~ InGrid(call.center.x, call.center.y, MapWidth, MapHeight)
    /\ \E y \in DOMAIN arg : \E x \in DOMAIN arg[y] : arg[y][x] = 1 /\ pre[y][x] = 0
    /\ \E y \in DOMAIN arg : \E x \in DOMAIN arg[y] : arg[y][x] = 0

(***************************************************************************)
(* Properties of the request handlers.                                     *)
(***************************************************************************)
EndTurnOps == {"endTurn", "endTurn/ai-units"}

\* C14: a completed end-turn request leaves the turn of the game it names
\* one higher and current_player at the player marker, and no action or
\* end-turn request lowers the turn of a stored game.
C14_EndTurnIncrementsTurn ==
    [][/\ (call'.op \in EndTurnOps /\ resp'.status = 200) =>
             \A k \in DOMAIN db :
                 db[k]._id = call'.game_id =>
                    /\ db'[k].gamesession.turn = db[k].gamesession.turn + 1
                    /\ db'[k].gamesession.current_player = "player"
       /\ call'.op \in EndTurnOps \cup {"action"} =>
             \A k \in DOMAIN db :
                 db'[k].gamesession.turn >= db[k].gamesession.turn]_vars

\* the stored games a game id names, as object id, name or scenario id
Addressed(coll, game_id) ==
    {k \in DOMAIN coll : game_id \in {coll[k]._id, coll[k].name, coll[k].scenario_id}}

\* C15: an action or cheat request whose game id names only games of other
\* users is rejected and leaves the collection as it was.
C15_NonOwnerRejected ==
    [][(/\ call'.op \in {"action", "cheat"}
        /\ Addressed(db, call'.game_id) # {}
        /\ \A k \in Addressed(db, call'.game_id) : db[k].user_id # call'.user)
       => (resp'.status >= 400 /\ db' = db)]_vars

\* the last request was an action request for a stored game whose state is
\* a JSON object without some field of GameState
PartialStateRequest ==
    /\ call.op = "action"
    /\ resp.status # 404
    /\ Has(call.payload, "gamesession")
    /\ GsData(call.payload.gamesession) # <<>>
    /\ GsData(call.payload.gamesession)[1].kind = "dict"
    /\ GameStateFields \ DOMAIN GsData(call.payload.gamesession)[1].body # {}

Lacking == GameStateFields \ DOMAIN GsData(call.payload.gamesession)[1].body

\* C16 as stated: the request is rejected with a list that names the fields
\* the state lacks, and nothing is written.
C16_PartialStateRejectedNamingLacking ==
    PartialStateRequest =>
        /\ resp.status = 400
        /\ db = pre
        /\ Has(resp.detail, "fields")
        /\ resp.detail.fields = Lacking

\* C16: the request is rejected with status 400 and nothing is written; the
\* response lists the fields lacking among current_player, player, ai and
\* map, and names a lacking turn only when those four are present.
C16_PartialStateRejected ==
    PartialStateRequest =>
        /\ resp.status = 400
        /\ db = pre
        /\ Has(resp.detail, "fields")
        /\ resp.detail.fields =
              IF Lacking \cap {"current_player", "player", "ai", "map"} # {}
              THEN Lacking \cap {"current_player", "player", "ai", "map"}
              ELSE Lacking

\* a state without turn and map was rejected, the response naming map
C16_Witness ==
    /\ PartialStateRequest
    /\ Lacking = {"turn", "map"}
    /\ resp.status = 400
    /\ resp.detail.fields = {"map"}
    /\ db = pre

AppliedTypes ==
    {"moveUnit", "buildStructure", "trainUnit", "improveResource",
     "researchTechnology", "foundCity", "attackEnemy"}

UnknownAt == {i \in DOMAIN call.batch : ActionType(call.batch[i]) \notin AppliedTypes}

\* C17: a batch holding actions of unknown type is applied to its end, the
\* returned state being that of the batch without them, and each action of
\* unknown type is reported as an error.
C17_UnknownTypeReportedBatchContinues ==
    (call.op \in {"player", "ai"} /\ UnknownAt # {}) =>
        LET valid == SelectSeqBy(call.batch, DOMAIN call.batch \ UnknownAt)
        IN /\ IF call.op = "player"
              THEN gs = apply_player_actions(pre, valid).gs
              ELSE gs \in apply_ai_actions(pre, valid)
           /\ Len(ret.errors) = Cardinality(UnknownAt)

\* the last call was get_ai_actions on a reply with a non-empty list of
\* action objects
NormalizedReply ==
    /\ call.op = "get_ai_actions"
    /\ call.response[1].kind = "object"
    /\ Has(call.response[1].body, "actions")
    /\ call.response[1].body.actions # <<>>
    /\ \A i \in DOMAIN call.response[1].body.actions :
          IsDict(call.response[1].body.actions[i])

OracleActions == call.response[1].body.actions

IdsOf(s) == {s[j].id : j \in DOMAIN s}

\* action i of the oracle names a unit or city the AI roster does not hold
NamesForeignId(i) ==
    LET a == OracleActions[i]
    IN \/ /\ ActionType(a) = "moveUnit"
          /\ ~ (Has(a.details, "unitId") /\ a.details.unitId \in IdsOf(arg.ai[1].units))
       \/ /\ ActionType(a) \in {"buildStructure", "trainUnit"}
          /\ ~ (Has(a.details, "cityId") /\ a.details.cityId \in IdsOf(arg.ai[1].cities))

NormalizerTypes == AppliedTypes \cup {"endTurn"}

\* C18: get_ai_actions does not raise on a list of action objects; the
\* returned sequence holds, in the order of the reply, one entry for every
\* action of a known type that names no unit or city outside the AI roster,
\* and no entry for any other action.
C18_ForeignIdsDropped ==
    NormalizedReply =>
        /\ ~ ret.raised
        /\ \A e \in DOMAIN ret.sequence :
              /\ ret.sequence[e].id \in DOMAIN OracleActions
              /\ ret.sequence[e].action_type = ActionType(OracleActions[ret.sequence[e].id])
              /\ ~ NamesForeignId(ret.sequence[e].id)
              /\ \A f \in DOMAIN ret.sequence :
                    e < f => ret.sequence[e].id < ret.sequence[f].id
        /\ \A i \in DOMAIN OracleActions :
              (ActionType(OracleActions[i]) \in NormalizerTypes /\ ~ NamesForeignId(i))
              => \E e \in DOMAIN ret.sequence : ret.sequence[e].id = i

\* a move of a player's unit was dropped and the action after it was kept
C18_Witness ==
    /\ NormalizedReply
    /\ Len(OracleActions) = 2
    /\ ActionType(OracleActions[1]) = "moveUnit"
    /\ Has(OracleActions[1].details, "unitId")
    /\ OracleActions[1].details.unitId \in IdsOf(arg.player.units)
    /\ Len(ret.sequence) = 1
    /\ ret.sequence[1].id = 2
    /\ ret.sequence[1].action_type = "trainUnit"

\* C19: after apply_player_actions, apply_ai_actions or get_ai_actions
\* returns, the state object that was passed in equals what it was before
\* the call.
C19_InputNotMutated ==
    call.op \in {"player", "ai", "apply_returned", "get_ai_actions"} => arg = pre

(***************************************************************************)
(* Claims about requests handled at once.                                  *)
(***************************************************************************)
AllDone == inflight # <<>> /\ \A i \in DOMAIN inflight : inflight[i].pc = "done"

Orders ==
    {o \in [DOMAIN inflight -> DOMAIN inflight] :
        \A i, j \in DOMAIN inflight : o[i] = o[j] => i = j}

RECURSIVE OneAfterTheOther(_, _)
\* the collection after the requests of the order were handled one by one
OneAfterTheOther(coll, order) ==
    IF order = <<>>
    THEN coll
    ELSE OneAfterTheOther(Handler(coll, inflight[Head(order)].request).db, Tail(order))

C22_DuplicateFoundCityFails ==
    /\ UniqueIds(gs.player.cities)
    /\ \A k \in DOMAIN gs.ai : UniqueIds(gs.ai[k].cities)
    /\ (/\ SingleAction("foundCity")
        /\ Has(call.batch[1].details, "cityId")
        /\ FirstIndexOfId(ActingBefore.cities, call.batch[1].details.cityId) # 0)
       => ActingAfter.cities = ActingBefore.cities

AttackedLoc == call.batch[1].details.location

Away(units) == SelectSeqBy(units, {j \in DOMAIN units : units[j].location # AttackedLoc})

\* C23: a single attackEnemy at a location removes, from every roster
\* opposing the acting side, every unit standing on that location and no
\* other unit, the remaining units keeping their order; the caller of the
\* player's variant gets an error when no opposing unit stood there, the
\* AI's variant does nothing and reports nothing in that case.
C23_AttackRemovesExactlyThoseThere ==
    (/\ call.op \in {"player", "ai"}
     /\ SingleAction("attackEnemy")
     /\ Has(call.batch[1].details, "location"))
    => /\ call.op = "player" =>
            /\ \A k \in DOMAIN pre.ai : gs.ai[k].units = Away(pre.ai[k].units)
            /\ (\A k \in DOMAIN pre.ai : Away(pre.ai[k].units) = pre.ai[k].units)
                   => ret.errors # <<>>
       /\ call.op = "ai" =>
            /\ gs.player.units = Away(pre.player.units)
            /\ ret.errors = <<>>

FallbackCalled == call.op = "create_fallback_actions"

Founded == ActingAfter.cities[Len(ActingAfter.cities)]

\* C25: after a single foundCity that appended the acting side's first
\* city, every cell of the explored grid within Chebyshev distance 2 of the
\* city's location is 1, for the player's applier and for the AI's.
C25_FirstCityReveals ==
    (/\ call.op \in {"player", "ai"}
     /\ SingleAction("foundCity")
     /\ ActingBefore.cities = <<>>
     /\ Len(ActingAfter.cities) = 1)
    => \A y \in DOMAIN gs.map.explored : \A x \in DOMAIN gs.map.explored[y] :
          Chebyshev(x - 1, y - 1, Founded.location) <= 2
              => gs.map.explored[y][x] = 1

RECURSIVE PlayerOneByOne(_, _)
\* the state after the single-action batches [a1], ..., [an], one call each
PlayerOneByOne(g, actions) ==
    IF actions = <<>> THEN g
    ELSE PlayerOneByOne(apply_player_actions(g, <<Head(actions)>>).gs, Tail(actions))

RECURSIVE AIOneByOne(_, _)
\* the states the AI's single-action batches [a1], ..., [an] may end in
AIOneByOne(states, actions) ==
    IF actions = <<>> THEN states
    ELSE AIOneByOne(UNION {apply_ai_actions(g, <<Head(actions)>>) : g \in states},
                    Tail(actions))

\* C26: a batch [a1..an] of one or more actions ends in the state that the
\* n single-action batches [a1], ..., [an], applied one after another, end
\* in: the actions act in the order given and each on the state the earlier
\* ones left.
C26_BatchIsSequenceOfSingles ==
    (call.op \in {"player", "ai"} /\ Len(call.batch) >= 1)
    => IF call.op = "player"
       THEN gs = PlayerOneByOne(pre, call.batch)
       ELSE /\ gs \in AIOneByOne({pre}, call.batch)
            /\ apply_ai_actions(pre, call.batch) = AIOneByOne({pre}, call.batch)

\* a city is founded under an id and a unit trained in it, in one batch
C26_Witness ==
    /\ call.op = "player"
    /\ Len(call.batch) = 2
    /\ ActionType(call.batch[1]) = "foundCity"
    /\ ActionType(call.batch[2]) = "trainUnit"
    /\ Has(call.batch[1].details, "cityId")
    /\ FirstIndexOfId(pre.player.cities, call.batch[1].details.cityId) = 0
    /\ call.batch[2].details.cityId = call.batch[1].details.cityId
    /\ Len(gs.player.cities) = Len(pre.player.cities) + 1
    /\ Len(gs.player.units) > Len(pre.player.units)

\* C27: every city and unit of a 'rival' player in the merge result has the
\* id of the original entity at its position, whatever ids and whatever
\* order the proposed list has.
C27_MergeKeepsEntityIds ==
    Merged =>
        \A i \in DOMAIN m.result.players :
            StartsWithRival(m.original[i].id) =>
                \A key \in {"cities", "units"} :
                    \A j \in DOMAIN m.result.players[i][key] :
                        m.result.players[i][key][j].id = m.original[i][key][j].id

LevelUpACity ==
    /\ call.op = "cheat"
    /\ resp.status = 200
    /\ call.payload.cheat_code = "level_up"
    /\ call.payload.target.type = "city"

\* the game of the last cheat request, before and after it
CheatedBefore == pre[find_one({k \in DOMAIN pre : pre[k]._id = call.game_id})]
CheatedAfter == db[find_one({k \in DOMAIN db : db[k]._id = call.game_id})]

Explored == gs.map.explored

CellsZeroOrOne == \A y \in DOMAIN Explored : \A x \in DOMAIN Explored[y] : Explored[y][x] \in {0, 1}

\* one step keeps the grid's dimensions and every 1 of it
GridGrows ==
    /\ DOMAIN Explored' = DOMAIN Explored
    /\ \A y \in DOMAIN Explored :
          /\ DOMAIN Explored'[y] = DOMAIN Explored[y]
          /\ \A x \in DOMAIN Explored[y] : Explored[y][x] = 1 => Explored'[y][x] = 1

\* C29: over every sequence of player batches, AI batches and reveals, each
\* cell of the explored grid holds 0 or 1, the grid keeps its dimensions, and
\* a cell that holds 1 holds 1 ever after.
C29_ExplorationMonotone == []CellsZeroOrOne /\ [][GridGrows]_vars

\* the player's first city was founded on a grid explored elsewhere: the
\* cells around the city are revealed and the far cell is still explored
C29_Witness ==
    /\ call.op = "player"
    /\ pre.player.cities = <<>>
    /\ Len(gs.player.cities) = 1
    /\ gs.player.cities[1].location = NearLoc
    /\ pre.map.explored[MapHeight][MapWidth] = 1
    /\ pre.map.explored[1][1] = 0
    /\ gs.map.explored[1][1] = 1
    /\ gs.map.explored[MapHeight][MapWidth] = 1

RosterFrame(before, after) ==
    /\ after.cities = before.cities
    /\ after.technologies = before.technologies
    /\ after.resources = before.resources

\* C30: apply_player_actions leaves turn, current_player and every AI
\* roster's cities, technologies and resources as they were (of the AI
\* rosters only the units may change); apply_ai_actions leaves turn,
\* current_player, the map, the player's cities, technologies and resources
\* and every AI roster but the one at index 0 as they were.
C30_AppliersStayInTheirRoster ==
    /\ call.op = "player" =>
          /\ gs.turn = pre.turn
          /\ gs.current_player = pre.current_player
          /\ Len(gs.ai) = Len(pre.ai)
          /\ \A k \in DOMAIN pre.ai : RosterFrame(pre.ai[k], gs.ai[k])
    /\ call.op \in {"ai", "apply_returned"} =>
          /\ gs.turn = pre.turn
          /\ gs.current_player = pre.current_player
          /\ gs.map = pre.map
          /\ RosterFrame(pre.player, gs.player)
          /\ \A k \in DOMAIN gs.ai : k > 1 => k \in DOMAIN pre.ai /\ gs.ai[k] = pre.ai[k]
          /\ \A k \in DOMAIN pre.ai : k \in DOMAIN gs.ai

\* the AI attacked a location where a unit of the player and a unit of the
\* second AI roster stood: the player's unit is gone, the roster is whole
C30_Witness ==
    /\ call.op = "ai"
    /\ SingleAction("attackEnemy")
    /\ Len(pre.ai) >= 2
    /\ \E j \in DOMAIN pre.ai[2].units : pre.ai[2].units[j].location = AttackedLoc
    /\ Len(gs.player.units) < Len(pre.player.units)
    /\ gs.ai[2] = pre.ai[2]

====
